---- MODULE Spec2Model ----
(***************************************************************************)
(* gpsdate: connect to gpsd, wait for the first trustworthy time fix, set  *)
(* the system clock from it and exit.  Model of src/gpsdate.c: main's      *)
(* startup retry loop, osmo_daemonize, the S_CONNECTED / S_RECONNECT loop, *)
(* my_gps_mainloop and callback.                                           *)
(*                                                                         *)
(* gpsd, the kernel clock and fork are the environment: every call into    *)
(* them (gps_open, gps_waiting, gps_read, settimeofday, fork, ...) returns *)
(* a nondeterministically chosen outcome.                                  *)
(***************************************************************************)
EXTENDS Integers, Sequences, FiniteSets, TLC

(* ---- bounds of the model ---- *)
MaxRetries == 2        \* largest --num-retries value tried
MaxTicks == 2          \* fix.time ranges over -MaxTicks..MaxTicks ticks
TicksPerSec == 2       \* fix.time is a fraction: ticks / TicksPerSec seconds
MaxSats == 4           \* satellites_used is 0 or this many
MaxReads == 2          \* reports the environment delivers
MaxLost == 1           \* connection losses the environment produces
MaxReconnectFail == 2  \* failed reconnects the environment produces

(* ---- program constants ---- *)
RETRY_SLEEP == 1
STATUS_NO_FIX == 0
EXIT_SUCCESS == 0
EXIT_FAILURE == 1
S_CONNECTED == "S_CONNECTED"
S_RECONNECT == "S_RECONNECT"

\* --retry-sleep values tried: the default and one that differs from it
SleepValues == {RETRY_SLEEP, RETRY_SLEEP + 1}

StatusValues == {STATUS_NO_FIX, 1, 2}   \* no fix, fix, dgps fix

\* struct gps_data_t as callback sees it: the TIME_SET bit of `set`,
\* fix.time (in ticks), status and satellites_used.
GpsData == [time_set : BOOLEAN,
            time : (0 - MaxTicks)..MaxTicks,
            status : StatusValues,
            satellites_used : {0, MaxSats}]

\* static struct gps_data_t gpsdata: zero-initialised
gpsdata_zero == [time_set |-> FALSE, time |-> 0, status |-> 0, satellites_used |-> 0]

VARIABLES
  pc,            \* position of the running process: "startup", "check_rc",
                 \* "loop", "callback", "commit", "exited"
  num_retries,   \* main: int num_retries (option -n)
  retry_sleep,   \* main: int retry_sleep (option -s)
  no_detach,     \* static int no_detach (option -d)
  i,             \* main: loop counter of the startup loop
  rc,            \* main: int rc (uninitialised until the first attempt)
  state,         \* main: enum state
  gpsdata,       \* static struct gps_data_t gpsdata
  handle,        \* number of gpsd sessions currently open
  tv,            \* callback: the struct timeval settimeofday was called with
  cb_rc,         \* callback: int rc, the result of settimeofday
  exits,         \* exits taken so far: records [who, status, at]
  events,        \* external calls made by the last step, in order
  startup_attempts, startup_sleeps,      \* history: the startup loop
  reconnect_attempts, reconnect_sleeps,  \* history: S_RECONNECT
  slept,         \* history: argument of the last sleep()
  reads,         \* history: reports handed to callback
  lost,          \* history: my_gps_mainloop returns
  validated,     \* history: callback invocations
  settime_calls, \* history: settimeofday calls
  daemonize_calls \* history: osmo_daemonize calls

vars == <<pc, num_retries, retry_sleep, no_detach, i, rc, state, gpsdata, handle,
          tv, cb_rc, exits, events, startup_attempts, startup_sleeps,
          reconnect_attempts, reconnect_sleeps, slept, reads, lost, validated,
          settime_calls, daemonize_calls>>

config == <<num_retries, retry_sleep, no_detach>>
hist_startup == <<startup_attempts, startup_sleeps>>
hist_reconnect == <<reconnect_attempts, reconnect_sleeps>>
hist_cb == <<validated, settime_calls, tv, cb_rc>>

tv_unset == [tv_sec |-> 0, tv_usec |-> 0 - 1]

\* State at the first test of the startup loop (line 239).  rc is an
\* uninitialised automatic variable: its value is whatever the build leaves
\* there, negative or not.
Init ==
  /\ pc = "startup"
  /\ num_retries \in (0 - 1)..MaxRetries
  /\ retry_sleep \in SleepValues
  /\ no_detach \in BOOLEAN
  /\ i = 1
  /\ rc \in {0 - 1, 0}
  /\ state = "unset"
  /\ gpsdata = gpsdata_zero
  /\ handle = 0
  /\ tv = tv_unset
  /\ cb_rc = 0
  /\ exits = {}
  /\ events = <<>>
  /\ startup_attempts = 0 /\ startup_sleeps = 0
  /\ reconnect_attempts = 0 /\ reconnect_sleeps = 0
  /\ slept = 0
  /\ reads = 0 /\ lost = 0 /\ validated = 0
  /\ settime_calls = 0 /\ daemonize_calls = 0

(* ---- attempt_reconnect ---- *)
\* gps_open fails: return -1; else syslog, gps_stream, return 0.
attempt_reconnect_rc(ok) == IF ok THEN 0 ELSE 0 - 1
attempt_reconnect_events(ok) ==
  IF ok THEN <<"gps_open:ok", "syslog:INFO:connected", "gps_stream">>
        ELSE <<"gps_open:fail">>

\* gps_close releases the session if one is open
gps_close(h) == IF h > 0 THEN h - 1 ELSE 0

(* ---- main: startup loop, lines 239-245 ---- *)
\* the loop test off by one
startup_cond_short(k, n) == k < n

startup_cond(k, n) == k <= n

\* the sleep placed before the test of rc: every attempt is followed by one
startup_sleeps_always(ok, s) == s + 1

\* sleep(retry_sleep) after a failed attempt, none after a successful one: the
\* break at line 243 comes before the sleep at line 244
startup_sleeps_after(ok, s) == IF ok THEN s ELSE s + 1

\* One iteration: printf, attempt_reconnect, break on success, else sleep, i++
startup_attempt ==
  /\ pc = "startup"
  /\ startup_cond(i, num_retries)
  /\ \E ok \in BOOLEAN :
       /\ rc' = attempt_reconnect_rc(ok)
       /\ handle' = IF ok THEN handle + 1 ELSE handle
       /\ startup_attempts' = startup_attempts + 1
       /\ startup_sleeps' = startup_sleeps_after(ok, startup_sleeps)
       /\ slept' = IF ok THEN slept ELSE retry_sleep
       /\ i' = IF ok THEN i ELSE i + 1
       /\ pc' = IF ok THEN "check_rc" ELSE "startup"
       /\ events' = <<"printf:attempt">> \o attempt_reconnect_events(ok)
                      \o (IF ok THEN <<>> ELSE <<"sleep">>)
  /\ UNCHANGED <<config, state, gpsdata, exits, hist_reconnect, reads, lost,
                 hist_cb, daemonize_calls>>

\* The loop condition fails: fall out of the loop
startup_loop_end ==
  /\ pc = "startup"
  /\ ~startup_cond(i, num_retries)
  /\ pc' = "check_rc"
  /\ events' = <<>>
  /\ UNCHANGED <<config, i, rc, state, gpsdata, handle, exits, hist_startup,
                 hist_reconnect, slept, reads, lost, hist_cb, daemonize_calls>>

(* ---- main: lines 247-252 ---- *)
startup_fatal(r) == r < 0

startup_fail ==
  /\ pc = "check_rc"
  /\ startup_fatal(rc)
  /\ pc' = "exited"
  /\ exits' = exits \cup {[who |-> "main", status |-> EXIT_FAILURE, at |-> "startup"]}
  /\ events' = <<"syslog:ERR:no gpsd", "closelog", "exit">>
  /\ UNCHANGED <<config, i, rc, state, gpsdata, handle, hist_startup,
                 hist_reconnect, slept, reads, lost, hist_cb, daemonize_calls>>

(* ---- osmo_daemonize ---- *)
\* Outcomes: already a daemon (-EEXIST), fork failed, or forked; after the
\* fork the parent calls exit(0) and the child carries on whether or not
\* setsid and chdir succeed.  main ignores the return value.
DaemonizeOutcomes == {"EEXIST", "fork_failed", "setsid_failed", "chdir_failed", "ok"}

osmo_daemonize_exits(o) ==
  IF o \in {"EEXIST", "fork_failed"} THEN {}
  ELSE {[who |-> "parent", status |-> 0, at |-> "osmo_daemonize"]}

(* ---- main: lines 253-256 ---- *)
enter_connected ==
  /\ pc = "check_rc"
  /\ ~startup_fatal(rc)
  /\ state' = S_CONNECTED
  /\ IF no_detach
       THEN /\ exits' = exits
            /\ daemonize_calls' = daemonize_calls
            /\ events' = <<>>
       ELSE \E o \in DaemonizeOutcomes :
            /\ exits' = exits \cup osmo_daemonize_exits(o)
            /\ daemonize_calls' = daemonize_calls + 1
            /\ events' = <<"osmo_daemonize", o>>
  /\ pc' = "loop"
  /\ UNCHANGED <<config, i, rc, gpsdata, handle, hist_startup, hist_reconnect,
                 slept, reads, lost, hist_cb>>

(* ---- my_gps_mainloop, and main's case S_CONNECTED (lines 262-270) ---- *)
\* my_gps_mainloop returns -1 when gps_waiting reports nothing within the
\* timeout, and gps_read's negative result when the read fails.
MainloopReturns == {"gps_waiting:timeout", "gps_read:error"}
my_gps_mainloop_rc(why) == 0 - 1

\* main, line 264: if (rc < 1)
connection_closed(r) == r < 1

\* the assignment of line 268 left out
state_after_close_same == S_CONNECTED

\* main, line 268
state_after_close == S_RECONNECT

connection_lost ==
  /\ pc = "loop"
  /\ state = S_CONNECTED
  /\ lost < MaxLost
  /\ \E why \in MainloopReturns :
       /\ rc' = my_gps_mainloop_rc(why)
       /\ lost' = lost + 1
       /\ IF connection_closed(rc')
            THEN /\ handle' = gps_close(handle)
                 /\ state' = state_after_close
                 /\ events' = <<why, "syslog:ERR:closed", "gps_close">>
            ELSE /\ UNCHANGED <<handle, state>>
                 /\ events' = <<why>>
  /\ pc' = "loop"
  /\ UNCHANGED <<config, i, gpsdata, exits, hist_startup, hist_reconnect, slept,
                 reads, hist_cb, daemonize_calls>>

\* gps_waiting reports data, gps_read fills gpsdata and the hook is called
read_report ==
  /\ pc = "loop"
  /\ state = S_CONNECTED
  /\ reads < MaxReads
  /\ \E g \in GpsData :
       gpsdata' = g
  /\ reads' = reads + 1
  /\ pc' = "callback"
  /\ events' = <<"gps_waiting:data", "gps_read:ok">>
  /\ UNCHANGED <<config, i, rc, state, handle, exits, hist_startup,
                 hist_reconnect, slept, lost, hist_cb, daemonize_calls>>

(* ---- callback ---- *)
\* callback_verdict without the satellites_used test
callback_verdict_no_sats(g) ==
  IF ~g.time_set THEN "no_time"
  ELSE IF g.status = 0 THEN "no_fix"
  ELSE "accept"

\* lines 59-60, 80-83, 85-88: the three early returns, in order
callback_verdict(g) ==
  IF ~g.time_set THEN "no_time"
  ELSE IF g.status = 0 THEN "no_fix"
  ELSE IF g.satellites_used = 0 THEN "no_sats"
  ELSE "accept"

\* tv_sec rounded to the nearest second instead of truncated
tv_sec_rounded(t) == (2 * t + TicksPerSec) \div (2 * TicksPerSec)

\* line 62: tv.tv_sec = gpsdata->fix.time; a C conversion from double to
\* time_t discards the fractional part (rounds toward zero)
tv_sec_of(t) == IF t >= 0 THEN t \div TicksPerSec
                ELSE 0 - ((0 - t) \div TicksPerSec)

\* line 64
tv_usec_of(t) == 0

\* callback_reject_events with the syslog of line 86 left out
callback_reject_events_quiet(v) ==
  IF v = "no_time" THEN <<>>
  ELSE IF v = "no_fix" THEN <<"syslog:DEBUG", "syslog:INFO:no fix yet">>
  ELSE <<"syslog:DEBUG">>

\* what callback logs before an early return: nothing at line 60 (the test
\* of TIME_SET comes before any syslog), the debug line and the reason at
\* lines 77-82 and 77-87
callback_reject_events(v) ==
  IF v = "no_time" THEN <<>>
  ELSE IF v = "no_fix" THEN <<"syslog:DEBUG", "syslog:INFO:no fix yet">>
  ELSE <<"syslog:DEBUG", "syslog:INFO:0 satellites used">>

\* callback with the gps_close of line 91 left out
callback_no_close ==
  /\ pc = "callback"
  /\ validated' = validated + 1
  /\ IF callback_verdict(gpsdata) = "accept"
       THEN /\ tv' = [tv_sec |-> tv_sec_of(gpsdata.time),
                      tv_usec |-> tv_usec_of(gpsdata.time)]
            /\ \E r \in {0, 0 - 1} : cb_rc' = r
            /\ settime_calls' = settime_calls + 1
            /\ handle' = handle
            /\ events' = <<"syslog:DEBUG", "settimeofday">>
            /\ pc' = "commit"
       ELSE /\ UNCHANGED <<tv, cb_rc, settime_calls, handle>>
            /\ events' = callback_reject_events(callback_verdict(gpsdata))
            /\ pc' = "loop"
  /\ UNCHANGED <<config, i, rc, state, gpsdata, exits, hist_startup,
                 hist_reconnect, slept, reads, lost, daemonize_calls>>

\* callback with gps_close moved ahead of the tests: a rejected report
\* costs the session its handle
callback_closes_first ==
  /\ pc = "callback"
  /\ validated' = validated + 1
  /\ handle' = gps_close(handle)
  /\ IF callback_verdict(gpsdata) = "accept"
       THEN /\ tv' = [tv_sec |-> tv_sec_of(gpsdata.time),
                      tv_usec |-> tv_usec_of(gpsdata.time)]
            /\ \E r \in {0, 0 - 1} : cb_rc' = r
            /\ settime_calls' = settime_calls + 1
            /\ events' = <<"syslog:DEBUG", "gps_close", "settimeofday">>
            /\ pc' = "commit"
       ELSE /\ UNCHANGED <<tv, cb_rc, settime_calls>>
            /\ events' = <<"gps_close">>
                           \o callback_reject_events(callback_verdict(gpsdata))
            /\ pc' = "loop"
  /\ UNCHANGED <<config, i, rc, state, gpsdata, exits, hist_startup,
                 hist_reconnect, slept, reads, lost, daemonize_calls>>

\* lines 52-91: up to and including settimeofday and gps_close
callback ==
  /\ pc = "callback"
  /\ validated' = validated + 1
  /\ IF callback_verdict(gpsdata) = "accept"
       THEN /\ tv' = [tv_sec |-> tv_sec_of(gpsdata.time),
                      tv_usec |-> tv_usec_of(gpsdata.time)]
            /\ \E r \in {0, 0 - 1} : cb_rc' = r
            /\ settime_calls' = settime_calls + 1
            /\ handle' = gps_close(handle)
            /\ events' = <<"syslog:DEBUG", "settimeofday", "gps_close">>
            /\ pc' = "commit"
       ELSE /\ UNCHANGED <<tv, cb_rc, settime_calls, handle>>
            /\ events' = callback_reject_events(callback_verdict(gpsdata))
            /\ pc' = "loop"
  /\ UNCHANGED <<config, i, rc, state, gpsdata, exits, hist_startup,
                 hist_reconnect, slept, reads, lost, daemonize_calls>>

\* every exit of callback reporting success
callback_exit_status_zero(r) == EXIT_SUCCESS

\* lines 92-102: exit(EXIT_SUCCESS) if rc == 0, else exit(EXIT_FAILURE)
callback_exit_status(r) == IF r = 0 THEN EXIT_SUCCESS ELSE EXIT_FAILURE

\* callback_exit with the failure branch returning to the read loop
\* instead of exiting
callback_exit_retry ==
  /\ pc = "commit"
  /\ pc' = IF cb_rc = 0 THEN "exited" ELSE "loop"
  /\ exits' = IF cb_rc = 0
                THEN exits \cup {[who |-> "main", status |-> EXIT_SUCCESS,
                                  at |-> "commit_ok"]}
                ELSE exits
  /\ events' = IF cb_rc = 0
                 THEN <<"syslog:NOTICE:set", "closelog", "exit">>
                 ELSE <<"syslog:ERR:settimeofday">>
  /\ UNCHANGED <<config, i, rc, state, gpsdata, handle, hist_startup,
                 hist_reconnect, slept, reads, lost, hist_cb, daemonize_calls>>

callback_exit ==
  /\ pc = "commit"
  /\ pc' = "exited"
  /\ exits' = exits \cup
       {[who |-> "main", status |-> callback_exit_status(cb_rc),
         at |-> IF cb_rc = 0 THEN "commit_ok" ELSE "commit_failed"]}
  /\ events' = IF cb_rc = 0
                 THEN <<"syslog:NOTICE:set", "closelog", "exit">>
                 ELSE <<"syslog:ERR:settimeofday", "closelog", "exit">>
  /\ UNCHANGED <<config, i, rc, state, gpsdata, handle, hist_startup,
                 hist_reconnect, slept, reads, lost, hist_cb, daemonize_calls>>

(* ---- main: case S_RECONNECT (lines 271-277) ---- *)
\* reconnect with the startup retry count applied to it: gives up with a
\* fatal exit once num_retries reconnect attempts have failed
reconnect_bounded ==
  /\ pc = "loop"
  /\ state = S_RECONNECT
  /\ \E ok \in BOOLEAN :
       /\ ok \/ reconnect_sleeps < MaxReconnectFail
       /\ rc' = attempt_reconnect_rc(ok)
       /\ handle' = IF ok THEN handle + 1 ELSE handle
       /\ reconnect_attempts' = reconnect_attempts + 1
       /\ IF rc' < 0
            THEN /\ reconnect_sleeps' = reconnect_sleeps + 1
                 /\ slept' = RETRY_SLEEP
                 /\ state' = state
                 /\ events' = attempt_reconnect_events(ok) \o <<"sleep">>
            ELSE /\ UNCHANGED <<reconnect_sleeps, slept>>
                 /\ state' = S_CONNECTED
                 /\ events' = attempt_reconnect_events(ok)
       /\ IF rc' < 0 /\ reconnect_sleeps' >= num_retries
            THEN /\ pc' = "exited"
                 /\ exits' = exits \cup
                      {[who |-> "main", status |-> EXIT_FAILURE, at |-> "reconnect"]}
            ELSE /\ pc' = "loop"
                 /\ exits' = exits
  /\ UNCHANGED <<config, i, gpsdata, hist_startup, reads, lost, hist_cb,
                 daemonize_calls>>

\* the reconnect branch sleeping the configured startup interval
reconnect_sleep_configured == retry_sleep

\* line 274: sleep(RETRY_SLEEP), the macro and not the variable retry_sleep
reconnect_sleep_arg == RETRY_SLEEP

\* One pass through case S_RECONNECT: attempt_reconnect, then either
\* sleep(RETRY_SLEEP) or state = S_CONNECTED; the while (1) goes round again
reconnect ==
  /\ pc = "loop"
  /\ state = S_RECONNECT
  /\ \E ok \in BOOLEAN :
       /\ ok \/ reconnect_sleeps < MaxReconnectFail
       /\ rc' = attempt_reconnect_rc(ok)
       /\ handle' = IF ok THEN handle + 1 ELSE handle
       /\ reconnect_attempts' = reconnect_attempts + 1
       /\ IF rc' < 0
            THEN /\ reconnect_sleeps' = reconnect_sleeps + 1
                 /\ slept' = reconnect_sleep_arg
                 /\ state' = state
                 /\ events' = attempt_reconnect_events(ok) \o <<"sleep">>
            ELSE /\ UNCHANGED <<reconnect_sleeps, slept>>
                 /\ state' = S_CONNECTED
                 /\ events' = attempt_reconnect_events(ok)
  /\ pc' = "loop"
  /\ UNCHANGED <<config, i, gpsdata, exits, hist_startup, reads, lost, hist_cb,
                 daemonize_calls>>

Next ==
  \/ startup_attempt
  \/ startup_loop_end
  \/ startup_fail
  \/ enter_connected
  \/ connection_lost
  \/ read_report
  \/ callback
  \/ callback_exit
  \/ reconnect

Spec == Init /\ [][Next]_vars

\* The process is single-threaded and runs to completion: a step of the
\* program that is enabled is eventually taken.  Steps whose outcome the
\* environment chooses (data arriving, gpsd coming back) carry no fairness.
LiveSpec == Spec /\ WF_vars(callback) /\ WF_vars(callback_exit)
              /\ WF_vars(startup_loop_end) /\ WF_vars(startup_fail)
              /\ WF_vars(enter_connected)

(***************************************************************************)
(* Properties                                                              *)
(***************************************************************************)

\* the report in gpsdata passes the three tests of callback
Trustworthy(g) == g.time_set /\ g.status # STATUS_NO_FIX /\ g.satellites_used > 0

\* s is t ticks cut down to whole seconds, the fraction dropped
WholeSecondsOf(s, t) ==
  IF t >= 0 THEN s >= 0 /\ s * TicksPerSec <= t /\ t < (s + 1) * TicksPerSec
            ELSE s <= 0 /\ s * TicksPerSec >= t /\ t > (s - 1) * TicksPerSec

MainExits == {e \in exits : e.who = "main"}

\* C1: settimeofday is called at most once in a run, and once it has been
\* called the only step left is the exit: no report is read, no connection
\* attempted, nothing validated and no second call made, whether the call
\* succeeded or failed.
C1_SetClockOnceThenExit ==
  /\ [](settime_calls <= 1)
  /\ [][settime_calls >= 1 =>
          /\ pc = "commit" /\ pc' = "exited"
          /\ reads' = reads
          /\ validated' = validated
          /\ startup_attempts' = startup_attempts
          /\ reconnect_attempts' = reconnect_attempts
          /\ settime_calls' = settime_calls]_vars

\* a run that rejected a report, lost the connection, came back, then had
\* settimeofday fail and exited
C1_Witness ==
  /\ pc = "exited"
  /\ settime_calls = 1
  /\ cb_rc # 0
  /\ reads >= 2
  /\ lost >= 1

\* C2: a report delivered to callback whose time field is not marked
\* present, whose status is no-fix or whose satellites_used is 0 is
\* rejected whatever its other fields are: settimeofday is not called for it.
C2_RejectRules ==
  [][(pc = "callback" /\ (\/ ~gpsdata.time_set
                          \/ gpsdata.status = STATUS_NO_FIX
                          \/ gpsdata.satellites_used = 0))
       => (settime_calls' = settime_calls /\ tv' = tv /\ pc' # "commit")]_vars

\* a report with time and a fix but no satellites has been through callback
\* and no clock call was made
C2_Witness ==
  /\ pc = "loop"
  /\ validated >= 1
  /\ gpsdata.time_set /\ gpsdata.status # STATUS_NO_FIX
  /\ gpsdata.satellites_used = 0
  /\ settime_calls = 0

\* C3: a report with time present, status other than no-fix and
\* satellites_used > 0 is accepted: settimeofday is called with tv_sec the
\* report's time cut to whole seconds and tv_usec 0.
C3_AcceptTruncates ==
  [][(pc = "callback" /\ Trustworthy(gpsdata))
       => /\ settime_calls' = settime_calls + 1
          /\ WholeSecondsOf(tv'.tv_sec, gpsdata.time)
          /\ tv'.tv_usec = 0]_vars

\* settimeofday was called for a negative time with a fractional part
C3_Witness ==
  /\ pc = "commit"
  /\ settime_calls = 1
  /\ gpsdata.time < 0
  /\ tv.tv_sec * TicksPerSec # gpsdata.time

\* the startup loop is over and left no connection: rc < 0 at line 247
StartupFailed == pc \in {"check_rc", "exited"} /\ state = "unset" /\ rc < 0

\* the startup loop ended with the break of line 243
StartupSucceeded ==
  num_retries >= 1 /\ ((pc = "check_rc" /\ rc >= 0) \/ state # "unset")

\* C4 as stated: every exit with status 0 follows a clock commit that
\* succeeded, every exit with another status is the startup exhaustion or a
\* clock commit that failed, and there is no other exit.  (Stated for the
\* runs with num_retries >= 1, where the startup loop assigns rc.)
C4_Original ==
  num_retries >= 1 =>
    \A e \in exits :
      /\ e.status = 0 => (settime_calls = 1 /\ cb_rc = 0)
      /\ e.status # 0 => \/ (settime_calls = 1 /\ cb_rc # 0)
                         \/ (settime_calls = 0 /\ StartupFailed)

\* C4, amended: the process that runs the session exits at most once, with
\* status 0 only after a settimeofday that succeeded and with a non-zero
\* status only at the startup check of rc (no connection, nothing read) or
\* after a settimeofday that failed; the one other exit is the parent of
\* osmo_daemonize's fork, which exits with status 0 once the startup connect
\* is over, only when no_detach is not set.
C4_ExitStatus ==
  /\ (pc = "exited") <=> (MainExits # {})
  /\ Cardinality(MainExits) <= 1
  /\ \A e \in exits :
       /\ e.who = "main" =>
            /\ e.status = 0 => (settime_calls = 1 /\ cb_rc = 0)
            /\ e.status # 0 =>
                 \/ (settime_calls = 1 /\ cb_rc # 0)
                 \/ (settime_calls = 0 /\ StartupFailed /\ reads = 0 /\ handle = 0)
       /\ e.who # "main" =>
            /\ e = [who |-> "parent", status |-> 0, at |-> "osmo_daemonize"]
            /\ ~no_detach
            /\ daemonize_calls = 1
            /\ state # "unset"

\* the session exited 0 after a commit, and the parent of the fork had
\* exited before it
C4_Witness ==
  /\ pc = "exited"
  /\ [who |-> "main", status |-> 0, at |-> "commit_ok"] \in exits
  /\ [who |-> "parent", status |-> 0, at |-> "osmo_daemonize"] \in exits
  /\ cb_rc = 0

\* C5: with num_retries >= 1, if the startup attempts 1..k-1 fail and
\* attempt k succeeds, the startup loop ends with an open handle after
\* exactly k attempts and k-1 sleeps, k <= num_retries, and no startup
\* attempt or startup sleep is made afterwards.
C5_StartupSuccess ==
  StartupSucceeded =>
    /\ startup_attempts = i
    /\ 1 <= i /\ i <= num_retries
    /\ startup_sleeps = startup_attempts - 1
    /\ (pc = "check_rc" => handle = 1)

\* the second startup attempt succeeded after the first failed
C5_Witness ==
  /\ pc = "check_rc"
  /\ rc >= 0
  /\ startup_attempts = 2
  /\ startup_sleeps = 1
  /\ handle = 1

\* C6: with num_retries >= 1, if every startup attempt fails the process
\* makes exactly num_retries attempts and then exits with a non-zero status;
\* it never enters S_CONNECTED, never reads a report and never calls
\* settimeofday.
C6_StartupExhaustion ==
  /\ []((num_retries >= 1 /\ pc = "startup" /\ i > num_retries)
          => (rc < 0 /\ startup_attempts = num_retries))
  /\ []((num_retries >= 1 /\ StartupFailed)
          => /\ startup_attempts = num_retries
             /\ state = "unset"
             /\ reads = 0 /\ validated = 0 /\ settime_calls = 0
             /\ daemonize_calls = 0
             /\ handle = 0
             /\ (pc = "exited" =>
                   exits = {[who |-> "main", status |-> EXIT_FAILURE,
                             at |-> "startup"]}))
  /\ [][(num_retries >= 1 /\ pc = "check_rc" /\ rc < 0) => pc' = "exited"]_vars

\* two startup attempts were configured, both failed and the process exited
C6_Witness ==
  /\ num_retries = 2
  /\ pc = "exited"
  /\ state = "unset"
  /\ startup_attempts = 2

\* C7 as stated: when all num_retries startup attempts fail, the process
\* exits after exactly num_retries attempts and num_retries - 1 sleeps.
C7_Original ==
  (num_retries >= 1 /\ pc = "exited" /\ state = "unset")
    => (startup_attempts = num_retries /\ startup_sleeps = num_retries - 1)

\* C8: in S_CONNECTED, when my_gps_mainloop returns (nothing within the
\* timeout, or a read error) the handle is closed, state becomes S_RECONNECT
\* and the process goes on; from S_RECONNECT every step is one reconnect
\* attempt, so no report is read or validated until an attempt has
\* succeeded, and state returns to S_CONNECTED exactly when it has.
C8_LostThenReconnect ==
  /\ [][lost' # lost =>
          /\ pc = "loop" /\ state = S_CONNECTED
          /\ handle' = 0
          /\ state' = S_RECONNECT
          /\ pc' = "loop"
          /\ exits' = exits
          /\ reads' = reads]_vars
  /\ [][(pc = "loop" /\ state = S_RECONNECT) =>
          /\ reconnect_attempts' = reconnect_attempts + 1
          /\ reads' = reads /\ validated' = validated
          /\ pc' = "loop"
          /\ exits' = exits
          /\ (state' = S_CONNECTED) <=> (rc' >= 0 /\ handle' = 1)
          /\ state' \in {S_CONNECTED, S_RECONNECT}]_vars
  /\ [][reads' # reads => (pc = "loop" /\ state = S_CONNECTED)]_vars
  /\ []((pc = "loop" /\ state = S_RECONNECT) => handle = 0)

\* the read failed, the handle is closed and the process waits in S_RECONNECT
C8_Witness ==
  /\ pc = "loop"
  /\ state = S_RECONNECT
  /\ handle = 0
  /\ reads >= 1
  /\ Len(events) > 0 /\ events[1] = "gps_read:error"

\* C9: once main has entered its endless loop the process stays in
\* S_CONNECTED or S_RECONNECT for any number of lost connections and failed
\* reconnects; its only exit is the one that follows settimeofday, with
\* either result.  A failed reconnect is followed by another pass of the
\* loop whatever num_retries is.
C9_NeverGivesUp ==
  /\ [](state # "unset" =>
          /\ state \in {S_CONNECTED, S_RECONNECT}
          /\ pc \in {"loop", "callback", "commit", "exited"}
          /\ (pc = "exited" => settime_calls = 1))
  /\ [][(state # "unset" /\ pc # "exited" /\ pc' = "exited")
          => (pc = "commit" /\ settime_calls = 1)]_vars
  /\ [][reconnect_attempts' # reconnect_attempts
          => (pc' = "loop" /\ exits' = exits
              /\ (rc' < 0 => state' = S_RECONNECT))]_vars

\* more reconnect attempts have failed than num_retries allows startup
\* attempts, and the process is still trying
C9_Witness ==
  /\ num_retries >= 1
  /\ startup_attempts >= 1
  /\ reconnect_sleeps > num_retries
  /\ pc = "loop"
  /\ state = S_RECONNECT

\* C10: when a report that passes validation reaches callback after the
\* connection was lost, at least one reconnect attempt failed and a later
\* one succeeded, the process eventually has called settimeofday exactly
\* once, with that report's time in whole seconds, and has exited.  (gpsdata
\* still holds that report at the exit: it is the last one read.)
C10_CommitAfterReconnect ==
  (/\ pc = "callback"
   /\ Trustworthy(gpsdata)
   /\ lost >= 1 /\ reconnect_sleeps >= 1)
  ~> (/\ pc = "exited"
      /\ settime_calls = 1
      /\ WholeSecondsOf(tv.tv_sec, gpsdata.time) /\ tv.tv_usec = 0
      /\ validated = reads
      /\ MainExits # {})

\* the commit after a reconnect cycle has happened
C10_Witness ==
  /\ pc = "exited"
  /\ lost >= 1 /\ reconnect_sleeps >= 1
  /\ settime_calls = 1
  /\ cb_rc = 0
  /\ gpsdata.time # 0

\* C11: a rejected report is not fatal and changes nothing: callback
\* returns into my_gps_mainloop with state still S_CONNECTED, the handle as
\* it was (open, when the session has one), no settimeofday call and no
\* exit; the step after it is again one of my_gps_mainloop: the next read,
\* or its return when the connection is gone.
C11_RejectChangesNothing ==
  /\ [][(pc = "callback" /\ ~Trustworthy(gpsdata)) =>
          /\ pc' = "loop"
          /\ state = S_CONNECTED /\ state' = S_CONNECTED
          /\ handle' = handle
          /\ settime_calls' = settime_calls /\ tv' = tv /\ cb_rc' = cb_rc
          /\ exits' = exits
          /\ gpsdata' = gpsdata
          /\ hist_startup' = hist_startup
          /\ hist_reconnect' = hist_reconnect
          /\ reads' = reads /\ lost' = lost]_vars
  /\ [][(pc = "loop" /\ state = S_CONNECTED) =>
          \/ (reads' = reads + 1 /\ pc' = "callback" /\ handle' = handle)
          \/ (lost' = lost + 1 /\ pc' = "loop")]_vars

\* two reports were rejected one after the other on the same open handle
C11_Witness ==
  /\ pc = "loop"
  /\ state = S_CONNECTED
  /\ reads = 2 /\ validated = 2
  /\ lost = 0
  /\ handle = 1
  /\ settime_calls = 0
  /\ exits \subseteq {[who |-> "parent", status |-> 0, at |-> "osmo_daemonize"]}

\* C12: a failed clock commit is fatal and never retried: when settimeofday
\* fails the next step logs the error and exits with a failure status, and
\* nothing follows the exit: no second settimeofday, no read, no reconnect.
C12_CommitFailureFatal ==
  /\ [][(pc = "commit" /\ cb_rc # 0) =>
          /\ pc' = "exited"
          /\ events' = <<"syslog:ERR:settimeofday", "closelog", "exit">>
          /\ MainExits' = {[who |-> "main", status |-> EXIT_FAILURE,
                            at |-> "commit_failed"]}
          /\ settime_calls' = settime_calls
          /\ reads' = reads /\ validated' = validated
          /\ reconnect_attempts' = reconnect_attempts
          /\ startup_attempts' = startup_attempts]_vars
  /\ [][pc # "exited"]_vars
  /\ []((pc = "exited" /\ cb_rc # 0 /\ settime_calls >= 1) => settime_calls = 1)

\* settimeofday failed for the first report read and the process exited
\* with EXIT_FAILURE
C12_Witness ==
  /\ pc = "exited"
  /\ settime_calls = 1
  /\ cb_rc < 0
  /\ reads = 1
  /\ [who |-> "main", status |-> EXIT_FAILURE, at |-> "commit_failed"] \in exits

\* the session is live: main is in my_gps_mainloop or in case S_RECONNECT
InSession == pc \in {"loop", "callback"}

\* C13 as stated: in every state at most one handle is open; a connect is
\* attempted only with no handle open; S_CONNECTED goes with exactly one
\* open handle and S_RECONNECT with none.
C13_Original ==
  /\ handle <= 1
  /\ (pc = "startup" => handle = 0)
  /\ ((InSession /\ state = S_RECONNECT) => handle = 0)
  /\ ((InSession /\ state = S_CONNECTED) => handle = 1)

\* C14 as stated: every rejected report has its reason logged before the
\* read loop continues, for each of the three rejection rules.
C14_Original ==
  [][(pc = "callback" /\ ~Trustworthy(gpsdata)) =>
       \E k \in 1..Len(events') :
         events'[k] \in {"syslog:INFO:no time", "syslog:INFO:no fix yet",
                         "syslog:INFO:0 satellites used"}]_vars

\* C14, amended: a report rejected for status no-fix or for zero satellites
\* used has that reason logged (after the debug line) before the read loop
\* continues; a report without the time field is discarded with no log
\* message at all.
C14_RejectLogging ==
  [][pc = "callback" =>
       /\ (gpsdata.time_set /\ gpsdata.status = STATUS_NO_FIX)
            => (events' = <<"syslog:DEBUG", "syslog:INFO:no fix yet">>
                /\ pc' = "loop")
       /\ (gpsdata.time_set /\ gpsdata.status # STATUS_NO_FIX
             /\ gpsdata.satellites_used = 0)
            => (events' = <<"syslog:DEBUG", "syslog:INFO:0 satellites used">>
                /\ pc' = "loop")
       /\ ~gpsdata.time_set => (events' = <<>> /\ pc' = "loop")]_vars

\* a report with a fix but no satellites was rejected and the reason logged
C14_Witness ==
  /\ pc = "loop"
  /\ validated = reads /\ reads >= 1
  /\ gpsdata.time_set /\ gpsdata.status # STATUS_NO_FIX
  /\ gpsdata.satellites_used = 0
  /\ events = <<"syslog:DEBUG", "syslog:INFO:0 satellites used">>

\* C15 as stated: osmo_daemonize is called at most once, only after a
\* startup connect has succeeded and before the first read, never in the
\* startup loop nor on the startup failure exit, never with no_detach set.
C15_Original ==
  /\ daemonize_calls <= 1
  /\ (no_detach => daemonize_calls = 0)
  /\ ((pc = "startup" \/ StartupFailed) => daemonize_calls = 0)
  /\ (daemonize_calls = 1 => (startup_attempts >= 1 /\ state # "unset"))
  /\ ((pc = "loop" /\ reads = 0 /\ lost = 0 /\ daemonize_calls = 1)
        => handle = 1)

\* C16: from S_RECONNECT every step makes exactly one connect attempt; when
\* it succeeds state becomes S_CONNECTED and nothing sleeps; when it fails
\* the process sleeps once, RETRY_SLEEP (1) seconds whatever retry_sleep is,
\* and stays in S_RECONNECT.
C16_ReconnectStep ==
  [][(pc = "loop" /\ state = S_RECONNECT) =>
       /\ reconnect_attempts' = reconnect_attempts + 1
       /\ startup_sleeps' = startup_sleeps
       /\ \/ /\ rc' >= 0
             /\ state' = S_CONNECTED
             /\ handle' = 1
             /\ reconnect_sleeps' = reconnect_sleeps
             /\ slept' = slept
             /\ \A k \in 1..Len(events') : events'[k] # "sleep"
          \/ /\ rc' < 0
             /\ state' = S_RECONNECT
             /\ handle' = 0
             /\ reconnect_sleeps' = reconnect_sleeps + 1
             /\ slept' = 1
             /\ events'[Len(events')] = "sleep"]_vars

\* the startup loop slept the configured 2 seconds, and a failed reconnect
\* has just slept 1
C16_Witness ==
  /\ retry_sleep # RETRY_SLEEP
  /\ startup_sleeps >= 1
  /\ pc = "loop" /\ state = S_RECONNECT
  /\ reconnect_sleeps >= 1
  /\ slept = RETRY_SLEEP

\* position of call c in the calls of a step, 0 when it is not among them
IndexOf(seq, c) ==
  IF \E k \in 1..Len(seq) : seq[k] = c
    THEN CHOOSE k \in 1..Len(seq) : seq[k] = c /\ \A j \in 1..(k - 1) : seq[j] # c
    ELSE 0

OutcomeLogs == {"syslog:NOTICE:set", "syslog:ERR:settimeofday"}

\* C17: on both results of settimeofday the handle is closed after the call
\* returns and before the result is logged and the process exits, so no
\* handle is open at any exit: commit succeeded, commit failed or startup
\* failure.
C17_ClosedBeforeExit ==
  /\ [](pc \in {"commit", "exited"} => handle = 0)
  /\ [][settime_calls' # settime_calls =>
          /\ IndexOf(events', "settimeofday") > 0
          /\ IndexOf(events', "gps_close") > IndexOf(events', "settimeofday")
          /\ \A k \in 1..Len(events') : events'[k] \notin OutcomeLogs
          /\ handle' = 0
          /\ pc' = "commit"]_vars
  /\ [][pc = "commit" =>
          /\ handle = 0 /\ handle' = 0
          /\ events'[1] \in OutcomeLogs
          /\ events'[Len(events')] = "exit"
          /\ pc' = "exited"]_vars

\* the process exited after a commit that succeeded on a handle it had
\* reopened, and holds no handle
C17_Witness ==
  /\ pc = "exited"
  /\ settime_calls = 1 /\ cb_rc = 0
  /\ reconnect_attempts >= 1
  /\ handle = 0
  /\ events = <<"syslog:NOTICE:set", "closelog", "exit">>

\* C18 as stated: for every num_retries, 0 and negative values included,
\* S_CONNECTED is entered and a report read only after a connect attempt
\* has succeeded, and a startup without a successful attempt (also one
\* with no attempt at all) ends in the fatal startup exit.
C18_Original ==
  /\ (state # "unset" => (startup_attempts >= 1 /\ i <= num_retries))
  /\ (reads >= 1 => startup_attempts + reconnect_attempts >= 1)

====
